---- MODULE Spec2Model ----
(***************************************************************************)
(* Model of the inventory backend (src/main.py, src/auth.py,               *)
(* src/models.py): the document store's collections, the auth guard and    *)
(* the request handlers.                                                   *)
(*                                                                         *)
(* A handler is modelled as an operator from the store and the handler's   *)
(* arguments to the store it leaves behind and the response it returns.    *)
(* Documents carry the fields the handlers read or write; _id is the       *)
(* position of the document in its collection (ids are never reused).      *)
(* Amounts are whole numbers.                                              *)
(***************************************************************************)
EXTENDS Integers, Sequences, FiniteSets, TLC

VARIABLES
    users, products, suppliers, orders, activities,   \* the collections of the store
    resp,          \* the response to the last request
    JWT_SECRET,    \* the signing secret of the process environment ("" when unset)
    request,       \* the last request through the auth guard: header, outcome, request.state.user, auth
    procs,         \* the handlers in flight, each with its local variables and position
    uploads,       \* the names of the files under public/uploads, the directory served at /uploads
    utcnow         \* the date datetime.utcnow() returns

vars == <<users, products, suppliers, orders, activities, resp, JWT_SECRET, request, procs, uploads, utcnow>>

\* ------------------------------------------------------------------ bounds
MaxProducts == 2
MaxOrders == 1
MaxUsers == 2
MaxSuppliers == 1
MaxProcs == 2

\* values the requests are drawn from
Prices == {2, 3}
ClientPrices == {1, 5}
StockInputs == {-1, 1, 2}
OrderQuantities == {1, 2}
SupplierInputs == {1}
MaxItems == 2

\* ------------------------------------------------------------------ calendar
\* a datetime at the granularity of a day, within one year that is not a leap year
Date(m, d) == [month |-> m, day |-> d]

DaysInMonth(m) == IF m = 2 THEN 28 ELSE IF m \in {4, 6, 9, 11} THEN 30 ELSE 31

\* the number of the day in the year
RECURSIVE DaysBefore(_)
DaysBefore(m) == IF m = 1 THEN 0 ELSE DaysInMonth(m - 1) + DaysBefore(m - 1)

toordinal(date) == DaysBefore(date.month) + date.day

\* the dates the clock shows, in the order it shows them
Dates == <<Date(1, 31), Date(2, 10), Date(3, 1), Date(3, 31)>>

\* ------------------------------------------------------------------ store
DB == [users |-> users, products |-> products, suppliers |-> suppliers,
       orders |-> orders, activities |-> activities]

\* Python's None, the value of `auth` when the dependency returns nothing
None == [tag |-> "None"]

Identity(u, r) == [tag |-> "dict", userId |-> u, role |-> r]

\* what a handler leaves behind
Result(db, r) == [db |-> db, resp |-> r]

Response(op, status, detail, data) ==
    [op |-> op, status |-> status, detail |-> detail, data |-> data]

NoData == [tag |-> "none"]

\* an HTTPException raised by the handler: no write has happened before it
Raise(db, op, status, detail) == Result(db, Response(op, status, detail, NoData))

\* user["role"] / user["userId"] on None raises TypeError: the framework answers 500
TypeError(db, op) == Raise(db, op, 500, "Internal Server Error")

\* ------------------------------------------------------------------ create_order
\* a stock check that only asks whether the product is in stock at all
check_item_any_stock(prods, item) ==
    IF item.productId \notin DOMAIN prods
    THEN [status |-> 404, detail |-> "Product not found"]
    ELSE IF prods[item.productId].quantity < 1
    THEN [status |-> 400, detail |-> "Insufficient stock"]
    ELSE [status |-> 200, detail |-> "",
          order_item |-> [productId |-> item.productId, quantity |-> item.quantity,
                          price |-> prods[item.productId].price]]

\* the order priced with the price the client sent
check_item_client_price(prods, item) ==
    IF item.productId \notin DOMAIN prods
    THEN [status |-> 404, detail |-> "Product not found"]
    ELSE IF prods[item.productId].quantity < item.quantity
    THEN [status |-> 400, detail |-> "Insufficient stock"]
    ELSE [status |-> 200, detail |-> "",
          order_item |-> [productId |-> item.productId, quantity |-> item.quantity,
                          price |-> item.price]]

\* one pass of the loop body: look the product up, check its stock, price the line
check_item(prods, item) ==
    IF item.productId \notin DOMAIN prods
    THEN [status |-> 404, detail |-> "Product not found"]
    ELSE IF prods[item.productId].quantity < item.quantity
    THEN [status |-> 400, detail |-> "Insufficient stock"]
    ELSE [status |-> 200, detail |-> "",
          order_item |-> [productId |-> item.productId, quantity |-> item.quantity,
                          price |-> prods[item.productId].price]]

\* the loop over the request's line items: the first failing item decides
RECURSIVE check_items(_, _, _)
check_items(prods, items, order_items) ==
    IF items = <<>>
    THEN [status |-> 200, detail |-> "", order_items |-> order_items]
    ELSE LET chk == check_item(prods, Head(items)) IN
         IF chk.status # 200
         THEN [status |-> chk.status, detail |-> chk.detail, order_items |-> order_items]
         ELSE check_items(prods, Tail(items), Append(order_items, chk.order_item))

RECURSIVE total_amount(_)
total_amount(order_items) ==
    IF order_items = <<>> THEN 0
    ELSE Head(order_items).price * Head(order_items).quantity + total_amount(Tail(order_items))

\* a decrement the store refuses when it would take the stock below zero
inc_quantity_if_in_stock(prods, item) ==
    IF item.productId \in DOMAIN prods /\ prods[item.productId].quantity >= item.quantity
    THEN [prods EXCEPT ![item.productId].quantity = @ - item.quantity]
    ELSE prods

\* a decrement by one unit whatever the quantity ordered
inc_quantity_by_one(prods, item) ==
    IF item.productId \in DOMAIN prods
    THEN [prods EXCEPT ![item.productId].quantity = @ - 1]
    ELSE prods

\* update_one({"_id": productId}, {"$inc": {"quantity": -quantity}})
inc_quantity(prods, item) ==
    IF item.productId \in DOMAIN prods
    THEN [prods EXCEPT ![item.productId].quantity = @ - item.quantity]
    ELSE prods

RECURSIVE decrement_stock(_, _)
decrement_stock(prods, order_items) ==
    IF order_items = <<>> THEN prods
    ELSE decrement_stock(inc_quantity(prods, Head(order_items)), Tail(order_items))

\* update_one({"_id": userId}, {"$set": {"cartItems": []}})
clear_cart(us, userId) ==
    IF userId \in DOMAIN us THEN [us EXCEPT ![userId].cartItems = <<>>] ELSE us

order_activity(order_id, userId) ==
    [action |-> "Created", entityType |-> "order", entityId |-> order_id, userId |-> userId]

order_data(auth, order_items) ==
    [customerId |-> auth.userId,
     items |-> order_items,
     totalAmount |-> total_amount(order_items),
     status |-> "processing",
     orderDate |-> utcnow]

create_order(db, auth, items) ==
    IF items = <<>> THEN Raise(db, "create_order", 400, "Cart items are required")
    ELSE LET chk == check_items(db.products, items, <<>>) IN
    IF chk.status # 200 THEN Raise(db, "create_order", chk.status, chk.detail)
    ELSE IF auth = None THEN TypeError(db, "create_order")
    ELSE LET order_items == chk.order_items
             order_id == Len(db.orders) + 1
         IN Result([db EXCEPT !.orders = Append(@, order_data(auth, order_items)),
                              !.products = decrement_stock(@, order_items),
                              !.users = clear_cart(@, auth.userId),
                              !.activities = Append(@, order_activity(order_id, auth.userId))],
                   Response("create_order", 200, "",
                            [id |-> order_id] @@ order_data(auth, order_items)))

\* ------------------------------------------------------------------ order status
\* OrderStatusUpdate.status is a str: the handler sets whatever it is sent
update_order_status(db, auth, id, status_update) ==
    IF auth = None THEN TypeError(db, "update_order_status")
    ELSE IF auth.role # "admin"
    THEN Raise(db, "update_order_status", 403, "Forbidden: Admin access required")
    ELSE IF id \notin DOMAIN db.orders THEN Raise(db, "update_order_status", 404, "Order not found")
    ELSE LET updated == [db EXCEPT !.orders[id].status = status_update.status]
         IN Result(updated, Response("update_order_status", 200, "",
                                     [id |-> id] @@ updated.orders[id]))

\* ------------------------------------------------------------------ products
create_product(db, auth, product) ==
    IF auth = None THEN TypeError(db, "create_product")
    ELSE IF auth.role # "admin" THEN Raise(db, "create_product", 403, "Forbidden: Admin access required")
    ELSE Result([db EXCEPT !.products = Append(@, product)],
                Response("create_product", 200, "", [id |-> Len(db.products) + 1] @@ product))

update_product(db, auth, id, product) ==
    IF auth = None THEN TypeError(db, "update_product")
    ELSE IF auth.role # "admin" THEN Raise(db, "update_product", 403, "Forbidden: Admin access required")
    ELSE IF id \notin DOMAIN db.products THEN Raise(db, "update_product", 404, "Product not found")
    ELSE Result([db EXCEPT !.products[id] = product],
                Response("update_product", 200, "", [id |-> id] @@ product))

\* ------------------------------------------------------------------ suppliers
\* suppliers[id] is TRUE while the document with that _id is stored
create_supplier(db, auth) ==
    IF auth = None THEN TypeError(db, "create_supplier")
    ELSE IF auth.role # "admin" THEN Raise(db, "create_supplier", 403, "Forbidden: Admin access required")
    ELSE Result([db EXCEPT !.suppliers = Append(@, TRUE)],
                Response("create_supplier", 200, "", [id |-> Len(db.suppliers) + 1]))

\* products_coll.count_documents({"supplierId": id})
product_count(prods, id) == Cardinality({p \in DOMAIN prods : prods[p].supplierId = id})

\* suppliers_coll.delete_one({"_id": id}): the store after it, and deleted_count
delete_one(sups, id) ==
    IF id \in DOMAIN sups /\ sups[id]
    THEN [suppliers |-> [sups EXCEPT ![id] = FALSE], deleted_count |-> 1]
    ELSE [suppliers |-> sups, deleted_count |-> 0]

\* the part of delete_supplier after the count
delete_counted(db, id, count) ==
    IF count > 0
    THEN Raise(db, "delete_supplier", 400, "Cannot delete supplier with associated products")
    ELSE LET d == delete_one(db.suppliers, id) IN
         IF d.deleted_count = 0 THEN Raise(db, "delete_supplier", 404, "Supplier not found")
         ELSE Result([db EXCEPT !.suppliers = d.suppliers],
                     Response("delete_supplier", 200, "", [id |-> id]))

delete_supplier(db, auth, id) ==
    IF auth = None THEN TypeError(db, "delete_supplier")
    ELSE IF auth.role # "admin" THEN Raise(db, "delete_supplier", 403, "Forbidden: Admin access required")
    ELSE delete_counted(db, id, product_count(db.products, id))

\* ------------------------------------------------------------------ paginated lists
\* cursor.skip(skip).limit(limit) over the documents found, in the order found
\* (limit >= 1)
skip_limit(docs, skip, limit) ==
    SubSeq(docs, skip + 1, IF skip + limit < Len(docs) THEN skip + limit ELSE Len(docs))

\* Cursor.skip raises ValueError("skip must be >= 0") on a negative number; no
\* handler catches it on these routes and the framework answers 500
ValueError(db, op) == Raise(db, op, 500, "Internal Server Error")

\* the _ids of the suppliers stored, in insertion order
stored_suppliers(sups) == SelectSeq([i \in 1..Len(sups) |-> i], LAMBDA i : sups[i])

get_suppliers(db, auth, page, limit) ==
    IF auth = None THEN TypeError(db, "get_suppliers")
    ELSE IF auth.role # "admin" THEN Raise(db, "get_suppliers", 403, "Forbidden: Admin access required")
    ELSE LET skip == (page - 1) * limit
             found == stored_suppliers(db.suppliers)
             total == Len(found)
         IN IF skip < 0 THEN ValueError(db, "get_suppliers")
            ELSE LET docs == skip_limit(found, skip, limit)
                     data == [k \in DOMAIN docs |->
                                 [id |-> docs[k], productCount |-> product_count(db.products, docs[k])]]
                 IN Result(db, Response("get_suppliers", 200, "",
                        [data |-> data, total |-> total, page |-> page,
                         pages |-> (total + limit - 1) \div limit]))

get_products_list(db, auth, page, limit) ==
    LET skip == (page - 1) * limit
        total == Len(db.products)
    IN IF skip < 0 THEN ValueError(db, "get_products_list")
       ELSE LET ids == skip_limit([i \in 1..total |-> i], skip, limit)
                data == [k \in DOMAIN ids |-> [id |-> ids[k]] @@ db.products[ids[k]]]
            IN Result(db, Response("get_products_list", 200, "",
                   [data |-> data, total |-> total, page |-> page, limit |-> limit]))

get_orders(db, auth, page, limit) ==
    LET skip == (page - 1) * limit
        total == Len(db.orders)
    IN IF skip < 0 THEN ValueError(db, "get_orders")
       ELSE LET ids == skip_limit([i \in 1..total |-> i], skip, limit)
                data == [k \in DOMAIN ids |-> [id |-> ids[k]] @@ db.orders[ids[k]]]
            IN Result(db, Response("get_orders", 200, "",
                   [data |-> data, total |-> total, page |-> page, limit |-> limit]))

\* ------------------------------------------------------------------ report
RECURSIVE revenue(_, _)
revenue(os, ids) ==
    IF ids = <<>> THEN 0 ELSE os[Head(ids)].totalAmount + revenue(os, Tail(ids))

\* cutoff = utcnow() at midnight, then cutoff.replace(day=cutoff.day - days):
\* datetime.replace raises ValueError unless the new day is a day of cutoff's month,
\* the handler does not catch it and the framework answers 500. The report is
\* modelled by the orders it aggregates and the revenue summed over them.
get_report(db, auth, days) ==
    IF auth = None THEN TypeError(db, "get_report")
    ELSE IF auth.role # "admin" THEN Raise(db, "get_report", 403, "Forbidden: Admin access required")
    ELSE LET day == utcnow.day - days IN
         IF day < 1 \/ day > DaysInMonth(utcnow.month) THEN ValueError(db, "get_report")
         ELSE LET cutoff == Date(utcnow.month, day)
                  ids == SelectSeq([i \in 1..Len(db.orders) |-> i],
                             LAMBDA i : toordinal(db.orders[i].orderDate) >= toordinal(cutoff))
              IN Result(db, Response("get_report", 200, "",
                     [orders |-> ids, revenue |-> revenue(db.orders, ids)]))

\* ------------------------------------------------------------------ uploads
\* an UploadFile: its filename, as stem and extension
UploadFile(stem, ext) == [stem |-> stem, ext |-> ext]

\* the handler writes public/uploads/{file.filename} and answers with its URL; the
\* result is the directory it leaves behind and the response
upload_file(files, auth, file) ==
    IF auth = None
    THEN [files |-> files, resp |-> Response("upload_file", 500, "Internal Server Error", NoData)]
    ELSE IF auth.role # "admin"
    THEN [files |-> files, resp |-> Response("upload_file", 403, "Forbidden: Admin access required", NoData)]
    ELSE [files |-> files \cup {file},
          resp |-> Response("upload_file", 200, "", [imageUrl |-> [mount |-> "/uploads", file |-> file]])]

\* GET on a URL under the /uploads mount (StaticFiles over public/uploads)
static_get(files, url) == IF url.mount = "/uploads" /\ url.file \in files THEN 200 ELSE 404

\* ------------------------------------------------------------------ cart
CartItem(p, q, pr) == [productId |-> p, quantity |-> q, price |-> pr]

update_user_cart(db, auth, cartItems) ==
    IF auth = None THEN TypeError(db, "update_user_cart")
    ELSE IF auth.userId \notin DOMAIN db.users THEN Raise(db, "update_user_cart", 404, "User not found")
    ELSE Result([db EXCEPT !.users[auth.userId].cartItems = cartItems],
                Response("update_user_cart", 200, "", [cartItems |-> cartItems]))

\* ------------------------------------------------------------------ tokens
\* jwt.encode(payload, key, HS256): the payload, the key that signed it, no exp claim
jwt_encode(payload, key) == [payload |-> payload, key |-> key, expired |-> FALSE]

\* jwt.decode(token, key, HS256) succeeds on a token signed with key and not expired
jwt_valid(token, key) == token.key = key /\ ~token.expired

NoRequest == [tag |-> "none"]

ProcIds == 1..MaxProcs

Idle == [pc |-> "idle", op |-> "none"]

\* ------------------------------------------------------------------ auth guard
NoHeader == [scheme |-> "", token |-> [tag |-> "none"]]

\* the dependency of every guarded route: the outcome, request.state.user and the
\* value it returns, which is what the handler receives as `auth`
with_auth(header) ==
    IF header = NoHeader \/ header.scheme # "Bearer"
    THEN [status |-> 401, detail |-> "Unauthorized: No token provided", state_user |-> None, return |-> None]
    ELSE IF JWT_SECRET = ""
    THEN [status |-> 500, detail |-> "Server configuration error", state_user |-> None, return |-> None]
    ELSE IF ~jwt_valid(header.token, JWT_SECRET)
    THEN [status |-> 401, detail |-> "Unauthorized: Invalid token", state_user |-> None, return |-> None]
    ELSE IF header.token.payload.role # "admin"
    THEN [status |-> 403, detail |-> "Forbidden: Admin access required", state_user |-> None, return |-> None]
    ELSE [status |-> 200, detail |-> "", state_user |-> header.token.payload, return |-> None]

\* ------------------------------------------------------------------ users
\* bcrypt.hashpw(password, gensalt()): a hash of the password (the salt is left out)
bcrypt_hashpw(password) == [tag |-> "bcrypt", of |-> password]

\* a str value of a request body
Str(v) == [tag |-> "str", value |-> v]

\* an optional field the request body does not carry
Unset == [tag |-> "unset"]

EmailTaken(us, email) == \E u \in DOMAIN us : us[u].email = email

\* "customer" if register.role == "admin" else register.role
user_role(role) == IF role = "admin" THEN "customer" ELSE role

\* register from users.insert_one on: the user is stored before the secret is looked at
register_insert(db, reg) ==
    LET user_data == [email |-> reg.email, password |-> bcrypt_hashpw(reg.password),
                      role |-> user_role(reg.role), cartItems |-> <<>>]
        db2 == [db EXCEPT !.users = Append(@, user_data)]
        inserted_id == Len(db.users) + 1
    IN IF JWT_SECRET = ""
       THEN Result(db2, Response("register", 500, "Server configuration error", NoData))
       ELSE Result(db2, Response("register", 200, "",
                [token |-> jwt_encode(Identity(inserted_id, user_role(reg.role)), JWT_SECRET)]))

register(db, reg) ==
    IF EmailTaken(db.users, reg.email) THEN Raise(db, "register", 409, "User already exists")
    ELSE register_insert(db, reg)

create_admin(db) ==
    IF \E u \in DOMAIN db.users : db.users[u].role = "admin"
    THEN Raise(db, "create_admin", 400, "Admin user already exists")
    ELSE LET admin_data == [email |-> "admin@admin.com", password |-> bcrypt_hashpw("admin123"),
                            role |-> "admin", cartItems |-> <<>>]
         IN Result([db EXCEPT !.users = Append(@, admin_data)],
                   Response("create_admin", 200, "", [id |-> Len(db.users) + 1]))

\* the password update_user_profile puts in update_dict: a non-empty str is hashed,
\* an empty str or None stays as sent, a field that was not sent is not in the dict
update_dict_password(stored, password) ==
    IF password = Unset THEN stored
    ELSE IF password.tag = "str" /\ password.value # "" THEN bcrypt_hashpw(password.value)
    ELSE password

update_user_profile(db, auth, update_data) ==
    IF auth = None THEN TypeError(db, "update_user_profile")
    ELSE IF auth.userId \notin DOMAIN db.users
    THEN Raise(db, "update_user_profile", 404, "User not found")
    ELSE Result([db EXCEPT !.users[auth.userId].email = update_data.email,
                           !.users[auth.userId].password = update_dict_password(@, update_data.password)],
                Response("update_user_profile", 200, "",
                         [id |-> auth.userId, email |-> update_data.email,
                          role |-> db.users[auth.userId].role]))

\* users.find_one({"email": email}): the first stored user with that email, 0 if none
find_one_email(us, email) ==
    IF \E u \in DOMAIN us : us[u].email = email
    THEN CHOOSE u \in DOMAIN us : us[u].email = email /\ \A v \in 1..(u - 1) : us[v].email # email
    ELSE 0

\* a login that tells an unknown email from a wrong password
login_user_not_found(db, req) ==
    LET u == find_one_email(db.users, req.email) IN
    IF u = 0 THEN Raise(db, "login", 404, "User not found")
    ELSE IF db.users[u].password.tag # "bcrypt" THEN Raise(db, "login", 500, "Internal Server Error")
    ELSE IF db.users[u].password # bcrypt_hashpw(req.password)
    THEN Raise(db, "login", 401, "Invalid credentials")
    ELSE IF JWT_SECRET = "" THEN Raise(db, "login", 500, "Server configuration error")
    ELSE Result(db, Response("login", 200, "",
             [token |-> jwt_encode(Identity(u, db.users[u].role), JWT_SECRET)]))

\* user["password"].encode raises on None and bcrypt.checkpw raises on a stored
\* value that is not a hash: the framework answers 500
login(db, req) ==
    LET u == find_one_email(db.users, req.email) IN
    IF u = 0 THEN Raise(db, "login", 401, "Invalid credentials")
    ELSE IF db.users[u].password.tag # "bcrypt" THEN Raise(db, "login", 500, "Internal Server Error")
    ELSE IF db.users[u].password # bcrypt_hashpw(req.password)
    THEN Raise(db, "login", 401, "Invalid credentials")
    ELSE IF JWT_SECRET = "" THEN Raise(db, "login", 500, "Server configuration error")
    ELSE Result(db, Response("login", 200, "",
             [token |-> jwt_encode(Identity(u, db.users[u].role), JWT_SECRET)]))

\* ------------------------------------------------------------------ inputs
ProductIdInputs == 1..(MaxProducts + 1)

ItemInputs == [productId : ProductIdInputs, quantity : OrderQuantities, price : ClientPrices]

ItemLists == UNION {[1..n -> ItemInputs] : n \in 0..MaxItems}

ProductInputs == [price : Prices, quantity : StockInputs, supplierId : SupplierInputs]

CartInputs == {<<>>, <<CartItem(1, 1, 2)>>}

Emails == {"a@x.com", "admin@admin.com"}

\* RegisterRequest.role: "customer", "admin" or JSON null ("null")
RoleInputs == {"customer", "admin", "null"}

RegisterInputs == [email : Emails, password : {"password1"}, role : RoleInputs]

\* UserUpdate.password: not sent, null, an empty str, a str
PasswordUpdates == {Unset, None, Str(""), Str("password2")}

UserUpdateInputs == [email : Emails, password : PasswordUpdates]

LoginInputs ==
    [email : Emails \cup {"nobody@x.com"}, password : {"password1", "admin123", "wrongpass"}]

\* the identities the tokens issued to stored users carry, and None
AuthValues == {None} \cup {Identity(u, users[u].role) : u \in DOMAIN users}

\* tokens a client can present: issued to a stored user, or signed with another key,
\* or carrying an exp claim that has passed
Tokens ==
    [payload : {Identity(u, users[u].role) : u \in DOMAIN users},
     key : {"s3cret", "forged"}, expired : BOOLEAN]

Headers == {NoHeader} \cup [scheme : {"Bearer", "Basic"}, token : Tokens]

\* ------------------------------------------------------------------ actions
Store(r) ==
    /\ users' = r.db.users
    /\ products' = r.db.products
    /\ suppliers' = r.db.suppliers
    /\ orders' = r.db.orders
    /\ activities' = r.db.activities
    /\ resp' = r.resp
    /\ UNCHANGED <<JWT_SECRET, uploads, utcnow, procs>>

\* a handler called with its arguments, no guard in front of it
Apply(r) == Store(r) /\ request' = NoRequest

Handle_create_order ==
    /\ Len(orders) < MaxOrders
    /\ \E auth \in AuthValues, items \in ItemLists : Apply(create_order(DB, auth, items))

Handle_create_product ==
    /\ Len(products) < MaxProducts
    /\ \E auth \in AuthValues, product \in ProductInputs : Apply(create_product(DB, auth, product))

Handle_update_product ==
    \E auth \in AuthValues, id \in ProductIdInputs, product \in ProductInputs :
        Apply(update_product(DB, auth, id, product))

Handle_update_user_cart ==
    \E auth \in AuthValues, cartItems \in CartInputs : Apply(update_user_cart(DB, auth, cartItems))

Handle_register ==
    /\ Len(users) < MaxUsers
    /\ \E reg \in RegisterInputs : Apply(register(DB, reg))

Handle_update_user_profile ==
    \E auth \in AuthValues, update_data \in UserUpdateInputs :
        Apply(update_user_profile(DB, auth, update_data))

Handle_create_supplier ==
    /\ Len(suppliers) < MaxSuppliers
    /\ \E auth \in AuthValues : Apply(create_supplier(DB, auth))

Handle_delete_supplier ==
    \E auth \in AuthValues, id \in 1..(MaxSuppliers + 1) : Apply(delete_supplier(DB, auth, id))

PageInputs == 0..(MaxProducts + 1)

LimitInputs == {1, 2}

Handle_get_suppliers ==
    \E auth \in AuthValues, page \in PageInputs, limit \in LimitInputs :
        Apply(get_suppliers(DB, auth, page, limit))

Handle_get_products_list ==
    \E auth \in AuthValues, page \in PageInputs, limit \in LimitInputs :
        Apply(get_products_list(DB, auth, page, limit))

Handle_get_orders ==
    \E auth \in AuthValues, page \in PageInputs, limit \in LimitInputs :
        Apply(get_orders(DB, auth, page, limit))

FileInputs ==
    {UploadFile("a", "png"), UploadFile("b", "jpg"), UploadFile("c", "exe"),
     UploadFile("d", "svg"), UploadFile("e", "html"), UploadFile("f", "")}

Handle_upload_file ==
    \E auth \in AuthValues, file \in FileInputs :
        LET r == upload_file(uploads, auth, file) IN
        /\ uploads' = r.files
        /\ resp' = r.resp
        /\ request' = NoRequest
        /\ UNCHANGED <<users, products, suppliers, orders, activities, JWT_SECRET, procs, utcnow>>

StatusInputs == [status : {"shipped", "cancelled", "refunded", ""}]

Handle_update_order_status ==
    \E auth \in AuthValues, id \in 1..(MaxOrders + 1), status_update \in StatusInputs :
        Apply(update_order_status(DB, auth, id, status_update))

DaysInputs == {0, 1, 30}

Handle_get_report ==
    \E auth \in AuthValues, days \in DaysInputs : Apply(get_report(DB, auth, days))

\* the clock moves on to the next date
Tick ==
    /\ \E i \in 1..(Len(Dates) - 1) : utcnow = Dates[i] /\ utcnow' = Dates[i + 1]
    /\ UNCHANGED <<users, products, suppliers, orders, activities, resp, JWT_SECRET,
                   request, procs, uploads>>

\* ------------------------------------------------------------------ handlers in flight
\* A handler that makes several store calls, one action per call. The store is
\* shared by every worker serving the application, so calls of different requests
\* interleave; a store call can raise, and then the handler ends with 500 and
\* nothing compensates for the calls it has made.
StepItemLists == {items \in ItemLists : \A i \in DOMAIN items : items[i].price = 1}

StoreUnchanged == UNCHANGED <<users, products, suppliers, orders, activities>>

Finish(p, r) == resp' = r /\ procs' = [procs EXCEPT ![p] = Idle]

Placing == {q \in ProcIds : procs[q].op = "create_order"}

Start_create_order ==
    \E p \in ProcIds :
        /\ procs[p] = Idle
        /\ Len(orders) + Cardinality(Placing) < MaxProcs
        /\ \E auth \in AuthValues, items \in StepItemLists :
              IF items = <<>>
              THEN Finish(p, create_order(DB, auth, items).resp)
              ELSE /\ procs' = [procs EXCEPT ![p] =
                          [pc |-> "check", op |-> "create_order", auth |-> auth,
                           items |-> items, order_items |-> <<>>, todo |-> <<>>,
                           order_id |-> 0]]
                   /\ UNCHANGED resp
        /\ StoreUnchanged
        /\ UNCHANGED <<JWT_SECRET, uploads, utcnow, request>>

\* products_coll.find_one for the next line item, and the checks on it
Step_check ==
    \E p \in ProcIds :
        /\ procs[p].pc = "check"
        /\ LET l == procs[p]
               chk == check_item(products, l.items[Len(l.order_items) + 1])
           IN IF chk.status # 200
              THEN Finish(p, Response("create_order", chk.status, chk.detail, NoData))
              ELSE /\ procs' = [procs EXCEPT
                          ![p].order_items = Append(@, chk.order_item),
                          ![p].todo = Append(@, chk.order_item),
                          ![p].pc = IF Len(l.order_items) + 1 = Len(l.items)
                                    THEN "insert" ELSE "check"]
                   /\ UNCHANGED resp
        /\ StoreUnchanged
        /\ UNCHANGED <<JWT_SECRET, uploads, utcnow, request>>

\* order_data is built (user["userId"]) and orders_coll.insert_one runs
Step_insert ==
    \E p \in ProcIds :
        /\ procs[p].pc = "insert"
        /\ LET l == procs[p] IN
           IF l.auth = None
           THEN Finish(p, TypeError(DB, "create_order").resp) /\ UNCHANGED orders
           ELSE /\ orders' = Append(orders, order_data(l.auth, l.order_items))
                /\ procs' = [procs EXCEPT ![p].order_id = Len(orders) + 1,
                                          ![p].pc = "decrement"]
                /\ UNCHANGED resp
        /\ UNCHANGED <<users, products, suppliers, activities, JWT_SECRET, uploads, utcnow, request>>

\* products_coll.update_one for the next line of order_items (todo: the lines left)
Step_decrement ==
    \E p \in ProcIds :
        /\ procs[p].pc = "decrement"
        /\ LET l == procs[p] IN
           /\ products' = inc_quantity(products, Head(l.todo))
           /\ procs' = [procs EXCEPT ![p].todo = Tail(@),
                                     ![p].pc = IF Tail(l.todo) = <<>> THEN "clear_cart"
                                               ELSE "decrement"]
        /\ UNCHANGED <<users, suppliers, orders, activities, resp, JWT_SECRET, uploads, utcnow, request>>

Step_clear_cart ==
    \E p \in ProcIds :
        /\ procs[p].pc = "clear_cart"
        /\ users' = clear_cart(users, procs[p].auth.userId)
        /\ procs' = [procs EXCEPT ![p].pc = "activity"]
        /\ UNCHANGED <<products, suppliers, orders, activities, resp, JWT_SECRET, uploads, utcnow, request>>

Step_activity ==
    \E p \in ProcIds :
        /\ procs[p].pc = "activity"
        /\ LET l == procs[p] IN
           /\ activities' = Append(activities, order_activity(l.order_id, l.auth.userId))
           /\ Finish(p, Response("create_order", 200, "",
                                 [id |-> l.order_id] @@ order_data(l.auth, l.order_items)))
        /\ UNCHANGED <<users, products, suppliers, orders, JWT_SECRET, uploads, utcnow, request>>

\* the store call a handler is about to make raises (the connection is lost):
\* the call has no effect and the framework answers 500
StoreError ==
    \E p \in ProcIds :
        /\ procs[p].pc # "idle"
        /\ Finish(p, Response(procs[p].op, 500, "Internal Server Error", NoData))
        /\ StoreUnchanged
        /\ UNCHANGED <<JWT_SECRET, uploads, utcnow, request>>

SupplierIdInputs == 1..(MaxSuppliers + 1)

Start_delete_supplier ==
    \E p \in ProcIds :
        /\ procs[p] = Idle
        /\ \E auth \in AuthValues, id \in SupplierIdInputs :
              IF auth = None \/ auth.role # "admin"
              THEN Finish(p, delete_supplier(DB, auth, id).resp)
              ELSE /\ procs' = [procs EXCEPT ![p] =
                          [pc |-> "count", op |-> "delete_supplier", id |-> id, count |-> 0]]
                   /\ UNCHANGED resp
        /\ StoreUnchanged
        /\ UNCHANGED <<JWT_SECRET, uploads, utcnow, request>>

Step_count ==
    \E p \in ProcIds :
        /\ procs[p].pc = "count"
        /\ LET c == product_count(products, procs[p].id) IN
           IF c > 0
           THEN Finish(p, delete_counted(DB, procs[p].id, c).resp)
           ELSE procs' = [procs EXCEPT ![p].count = c, ![p].pc = "delete"] /\ UNCHANGED resp
        /\ StoreUnchanged
        /\ UNCHANGED <<JWT_SECRET, uploads, utcnow, request>>

Step_delete ==
    \E p \in ProcIds :
        /\ procs[p].pc = "delete"
        /\ LET r == delete_counted(DB, procs[p].id, procs[p].count) IN
           /\ suppliers' = r.db.suppliers
           /\ Finish(p, r.resp)
        /\ UNCHANGED <<users, products, orders, activities, JWT_SECRET, uploads, utcnow, request>>

Handle_create_admin == Len(users) < MaxUsers /\ Apply(create_admin(DB))

\* register, one action per store call: users.find_one, then users.insert_one
Start_register ==
    \E p \in ProcIds :
        /\ procs[p] = Idle
        /\ \E reg \in RegisterInputs :
              IF EmailTaken(users, reg.email)
              THEN Finish(p, register(DB, reg).resp)
              ELSE /\ procs' = [procs EXCEPT ![p] = [pc |-> "insert_user", op |-> "register", reg |-> reg]]
                   /\ UNCHANGED resp
        /\ StoreUnchanged
        /\ UNCHANGED <<JWT_SECRET, uploads, utcnow, request>>

Step_register_insert ==
    \E p \in ProcIds :
        /\ procs[p].pc = "insert_user"
        /\ Len(users) < MaxUsers
        /\ LET r == register_insert(DB, procs[p].reg) IN
           /\ users' = r.db.users
           /\ Finish(p, r.resp)
        /\ UNCHANGED <<products, suppliers, orders, activities, JWT_SECRET, uploads, utcnow, request>>

\* A guarded route: with_auth runs first; if it raises, the handler is not called;
\* otherwise the handler is called with auth = the value with_auth returned.
Guarded(route, header, r) ==
    LET g == with_auth(header) IN
    IF g.status # 200
    THEN /\ Store(Raise(DB, route, g.status, g.detail))
         /\ request' = [route |-> route, header |-> header, guard |-> g.status,
                        state_user |-> g.state_user, called |-> FALSE, auth |-> None]
    ELSE /\ Store(r)
         /\ request' = [route |-> route, header |-> header, guard |-> g.status,
                        state_user |-> g.state_user, called |-> TRUE, auth |-> g.return]

PUT_api_products_id ==
    \E header \in Headers, id \in ProductIdInputs, product \in ProductInputs :
        Guarded("update_product", header, update_product(DB, with_auth(header).return, id, product))

POST_api_orders ==
    \E header \in Headers, items \in ItemLists :
        Guarded("create_order", header, create_order(DB, with_auth(header).return, items))

PUT_api_user_cart ==
    \E header \in Headers, cartItems \in CartInputs :
        Guarded("update_user_cart", header, update_user_cart(DB, with_auth(header).return, cartItems))

PUT_api_user_profile ==
    \E header \in Headers, update_data \in UserUpdateInputs :
        Guarded("update_user_profile", header,
                update_user_profile(DB, with_auth(header).return, update_data))

Handle_login == \E l \in LoginInputs : Apply(login(DB, l))

\* the routes whose handler asks for role admin
RequiresAdmin(route) == route \in {"update_product"}

\* ------------------------------------------------------------------ specification
StoredUsers ==
    << [email |-> "admin@admin.com", password |-> bcrypt_hashpw("admin123"),
        role |-> "admin", cartItems |-> <<>>],
       [email |-> "a@x.com", password |-> bcrypt_hashpw("password1"),
        role |-> "customer", cartItems |-> <<>>] >>

Init ==
    /\ users = StoredUsers
    /\ products = <<>>
    /\ suppliers = <<>>
    /\ orders = <<>>
    /\ activities = <<>>
    /\ resp = Response("none", 0, "", NoData)
    /\ JWT_SECRET = "s3cret"
    /\ request = NoRequest
    /\ procs = [p \in ProcIds |-> Idle]
    /\ uploads = {}
    /\ utcnow = Dates[1]

Next ==
    \/ Handle_create_order
    \/ Handle_create_product
    \/ Handle_update_product
    \/ Handle_update_user_cart

Spec == Init /\ [][Next]_vars

\* Order placement against any catalog the admin can have built: every sequence of
\* product documents is reachable under Spec by create_product alone.
Catalogs == UNION {[1..n -> ProductInputs] : n \in 0..MaxProducts}

InitOrder ==
    /\ users = StoredUsers
    /\ products \in Catalogs
    /\ suppliers = <<>>
    /\ orders = <<>>
    /\ activities = <<>>
    /\ resp = Response("none", 0, "", NoData)
    /\ JWT_SECRET = "s3cret"
    /\ request = NoRequest
    /\ procs = [p \in ProcIds |-> Idle]
    /\ uploads = {}
    /\ utcnow = Dates[1]

NextOrder ==
    \/ Handle_create_order
    \/ Handle_update_user_cart

SpecOrder == InitOrder /\ [][NextOrder]_vars

\* Registration and profile updates on a store that starts empty.
InitUsers ==
    /\ users = <<>>
    /\ products = <<>>
    /\ suppliers = <<>>
    /\ orders = <<>>
    /\ activities = <<>>
    /\ resp = Response("none", 0, "", NoData)
    /\ JWT_SECRET \in {"s3cret", ""}
    /\ request = NoRequest
    /\ procs = [p \in ProcIds |-> Idle]
    /\ uploads = {}
    /\ utcnow = Dates[1]

NextUsers ==
    \/ Handle_register
    \/ Handle_update_user_profile
    \/ Start_register
    \/ Step_register_insert

SpecUsers == InitUsers /\ [][NextUsers]_vars

\* The routes as the application wires them, on a store that starts empty.
NextHttp ==
    \/ Handle_register
    \/ Handle_create_admin
    \/ PUT_api_products_id
    \/ POST_api_orders
    \/ PUT_api_user_cart

SpecHttp == InitUsers /\ [][NextHttp]_vars

\* Order placement call by call, on a catalog and carts Spec reaches.
StepCatalog ==
    << [price |-> 2, quantity |-> 2, supplierId |-> 1],
       [price |-> 3, quantity |-> 1, supplierId |-> 1] >>

StepCart == <<CartItem(1, 1, 2)>>

InitOrderSteps ==
    /\ users = [u \in DOMAIN StoredUsers |-> [StoredUsers[u] EXCEPT !.cartItems = StepCart]]
    /\ products = StepCatalog
    /\ suppliers = <<>>
    /\ orders = <<>>
    /\ activities = <<>>
    /\ resp = Response("none", 0, "", NoData)
    /\ JWT_SECRET = "s3cret"
    /\ request = NoRequest
    /\ procs = [p \in ProcIds |-> Idle]
    /\ uploads = {}
    /\ utcnow = Dates[1]

NextOrderSteps ==
    \/ Start_create_order
    \/ Step_check
    \/ Step_insert
    \/ Step_decrement
    \/ Step_clear_cart
    \/ Step_activity
    \/ StoreError

SpecOrderSteps == InitOrderSteps /\ [][NextOrderSteps]_vars

\* Supplier deletion call by call, beside the catalog handlers.
NextSupplierSteps ==
    \/ Handle_create_supplier
    \/ Handle_create_product
    \/ Handle_update_product
    \/ Start_delete_supplier
    \/ Step_count
    \/ Step_delete
    \/ StoreError

SpecSupplierSteps == Init /\ [][NextSupplierSteps]_vars
\* ------------------------------------------------------------------ order placement claims
\* The list routes on a store that suppliers, products and orders are added to.
NextList ==
    \/ Handle_create_supplier
    \/ Handle_delete_supplier
    \/ Handle_create_product
    \/ Handle_create_order
    \/ Handle_get_suppliers
    \/ Handle_get_products_list
    \/ Handle_get_orders

SpecList == Init /\ [][NextList]_vars

\* Uploads by the stored users.
NextUpload == Handle_upload_file

SpecUpload == Init /\ [][NextUpload]_vars

\* Login on the user routes as the application wires them: register, create_admin
\* and login have no guard, the profile route runs behind with_auth.
NextLogin ==
    \/ Handle_register
    \/ Handle_create_admin
    \/ Handle_login
    \/ PUT_api_user_profile

SpecLogin == InitUsers /\ [][NextLogin]_vars

\* Orders placed on any catalog, and their status updated.
NextOrderStatus ==
    \/ Handle_create_order
    \/ Handle_update_order_status

SpecOrderStatus == InitOrder /\ [][NextOrderStatus]_vars

\* Reports on the orders placed on a fixed catalog while the clock moves.
NextReport ==
    \/ Handle_create_order
    \/ Handle_get_report
    \/ Tick

SpecReport == InitOrderSteps /\ [][NextReport]_vars

Stored(item) == item.productId \in DOMAIN products

OverStock(item) == Stored(item) /\ item.quantity > products[item.productId].quantity

Identities == AuthValues \ {None}

Unchanged(r) == r.db = DB

\* the quantity a request orders of product p, over all its line items
RECURSIVE Ordered(_, _)
Ordered(items, p) ==
    IF items = <<>> THEN 0
    ELSE (IF Head(items).productId = p THEN Head(items).quantity ELSE 0) + Ordered(Tail(items), p)

\* the catalog value of a request: sum of catalog price x requested quantity
RECURSIVE CatalogTotal(_)
CatalogTotal(items) ==
    IF items = <<>> THEN 0
    ELSE products[Head(items).productId].price * Head(items).quantity + CatalogTotal(Tail(items))

C2_ValidOrderEffects ==
    \A auth \in Identities, items \in ItemLists \ {<<>>} :
        (\A i \in DOMAIN items : Stored(items[i]) /\ ~OverStock(items[i]))
            => LET r == create_order(DB, auth, items)
                   n == Len(orders) + 1
               IN /\ r.resp.status = 200
                  /\ DOMAIN r.db.products = DOMAIN products
                  /\ \A p \in DOMAIN products :
                        r.db.products[p].quantity = products[p].quantity - Ordered(items, p)
                  /\ r.db.users[auth.userId].cartItems = <<>>
                  /\ Len(r.db.orders) = n
                  /\ SubSeq(r.db.orders, 1, Len(orders)) = orders
                  /\ r.db.orders[n].status = "processing"
                  /\ r.resp.data.id = n
                  /\ Len(r.db.activities) = Len(activities) + 1
                  /\ SubSeq(r.db.activities, 1, Len(activities)) = activities
                  /\ r.db.activities[Len(activities) + 1].entityType = "order"
                  /\ r.db.activities[Len(activities) + 1].entityId = n

C2_Witness ==
    /\ resp.op = "create_order" /\ resp.status = 200
    /\ Len(resp.data.items) = 2
    /\ resp.data.items[1].productId # resp.data.items[2].productId
    /\ Len(orders) = 1 /\ orders[1].status = "processing"
    /\ Len(activities) = 1 /\ activities[1].entityId = resp.data.id
    /\ users[resp.data.customerId].cartItems = <<>>
    /\ \E u \in DOMAIN users : users[u].cartItems # <<>>

\* every price of the request replaced by c
Repriced(items, c) == [i \in DOMAIN items |-> [items[i] EXCEPT !.price = c]]

\* C3: the totalAmount stored and returned for a new order is the sum of catalog
\* price x requested quantity, the stored per-item prices are the catalog prices,
\* and the prices the client sends change nothing of the outcome.
C3_TotalFromCatalog ==
    \A auth \in Identities, items \in ItemLists :
        LET r == create_order(DB, auth, items) IN
        /\ r.resp.status = 200 =>
              LET o == r.db.orders[Len(r.db.orders)] IN
              /\ o.totalAmount = CatalogTotal(items)
              /\ r.resp.data.totalAmount = CatalogTotal(items)
              /\ Len(o.items) = Len(items)
              /\ \A i \in DOMAIN items :
                    o.items[i].price = products[items[i].productId].price
        /\ \A c \in ClientPrices : create_order(DB, auth, Repriced(items, c)) = r

C3_Witness ==
    /\ resp.op = "create_order" /\ resp.status = 200
    /\ Len(resp.data.items) = 2
    /\ resp.data.items[1].price # resp.data.items[2].price
    /\ resp.data.totalAmount = orders[Len(orders)].totalAmount
    /\ resp.data.totalAmount =
          resp.data.items[1].price * resp.data.items[1].quantity
        + resp.data.items[2].price * resp.data.items[2].quantity
    /\ \A i \in 1..2 : resp.data.items[i].price \notin ClientPrices

\* C5: every stored product has quantity >= 0.
C5_QuantityNonNegative ==
    \A p \in DOMAIN products : products[p].quantity >= 0

\* C5 for order placement alone: create_order never takes a product's quantity
\* from >= 0 to below 0.
C5_OrderKeepsNonNegative ==
    \A auth \in Identities, items \in ItemLists :
        C5_QuantityNonNegative =>
            \A p \in DOMAIN products : create_order(DB, auth, items).db.products[p].quantity >= 0

\* ------------------------------------------------------------------ user claims
\* C6: register answers 409 to an email a stored user holds and adds no user, and
\* no two stored users have the same email.
C6_EmailsUnique ==
    /\ \A reg \in RegisterInputs :
          EmailTaken(users, reg.email) =>
              LET r == register(DB, reg) IN r.resp.status = 409 /\ r.db = DB
    /\ \A u, v \in DOMAIN users : u # v => users[u].email # users[v].email

\* Emails stay unique as long as no profile update has been answered 200: fails
\* when two registrations of one email both look the email up before either inserts.
C6_RegisterKeepsUnique ==
    (resp.op # "update_user_profile") =>
        \A u, v \in DOMAIN users : u # v => users[u].email # users[v].email

\* C7: every user register has stored has role customer, the token returned by
\* register carries the stored role, and no stored user has role admin.
C7_RegisteredAsCustomer ==
    /\ \A u \in DOMAIN users : users[u].role = "customer"
    /\ (resp.op = "register" /\ resp.status = 200) =>
          /\ resp.data.token.payload.role = "customer"
          /\ resp.data.token.payload.role = users[resp.data.token.payload.userId].role

\* ------------------------------------------------------------------ guard claims
Guarded_request == request # NoRequest

\* C8: when a request passes the guard, the handler receives the decoded identity
\* of the presented token as auth, and its lookups on it do not fail.
C8_HandlerReceivesIdentity ==
    (Guarded_request /\ request.guard = 200) =>
        /\ request.called
        /\ request.auth = request.header.token.payload
        /\ resp.status # 500

\* the outcomes C9 allows for a header on a route
C9_Allowed(route, header) ==
    LET bad == \/ header = NoHeader
               \/ header.scheme # "Bearer"
               \/ ~jwt_valid(header.token, JWT_SECRET)
        unset == JWT_SECRET = ""
    IN  (IF bad THEN {401} ELSE {})
        \cup (IF unset THEN {500} ELSE {})
        \cup (IF ~bad /\ ~unset
              THEN (IF RequiresAdmin(route) /\ header.token.payload.role # "admin"
                    THEN {403} ELSE {200})
              ELSE {})

\* C9: the guard answers 401 to a missing, malformed or invalid token, 500 when the
\* secret is unset, 403 only where the route requires a role the token lacks, and
\* lets every other request through.
C9_GuardOutcome ==
    Guarded_request => request.guard \in C9_Allowed(request.route, request.header)

\* ------------------------------------------------------------------ atomicity claims
\* the quantity the persisted orders hold of product p
RECURSIVE OrderedBy(_, _)
OrderedBy(os, p) ==
    IF os = <<>> THEN 0 ELSE Ordered(Head(os).items, p) + OrderedBy(Tail(os), p)

\* C4: in every state, every persisted order has had all its products decremented
\* and its customer's cart cleared (under SpecOrderSteps only order placement
\* writes to products and carts, so stock is the catalog's minus what the
\* persisted orders hold).
C4_OrderPlacementAtomic ==
    /\ \A k \in DOMAIN orders : users[orders[k].customerId].cartItems = <<>>
    /\ \A p \in DOMAIN products :
          products[p].quantity = StepCatalog[p].quantity - OrderedBy(orders, p)

\* C4, for the states in which no handler is running: what a failed write leaves behind.
C4_NoPartialOrderLeftBehind ==
    (\A p \in ProcIds : procs[p] = Idle) => C4_OrderPlacementAtomic

Referenced(id) == \E p \in DOMAIN products : products[p].supplierId = id

\* C10: delete_supplier on a referenced supplier answers 400 and keeps it, and no
\* step removes a supplier that a stored product references.
C10_ReferencedSupplierKept ==
    /\ [](\A auth \in AuthValues, id \in DOMAIN suppliers :
            (auth # None /\ auth.role = "admin" /\ suppliers[id] /\ Referenced(id)) =>
                LET r == delete_supplier(DB, auth, id)
                IN r.resp.status = 400 /\ r.db.suppliers = suppliers)
    /\ [][\A id \in DOMAIN suppliers :
            (suppliers[id] /\ ~suppliers'[id]) => ~Referenced(id)]_vars

\* ------------------------------------------------------------------ list claims
Ceil(n, l) == IF n % l = 0 THEN n \div l ELSE (n \div l) + 1

Admins == {auth \in Identities : auth.role = "admin"}

\* the answers of the list routes to page and limit
ListAnswers(page, limit) ==
    {get_suppliers(DB, auth, page, limit).resp : auth \in Admins}
    \cup {get_products_list(DB, auth, page, limit).resp : auth \in Admins}
    \cup {get_orders(DB, auth, page, limit).resp : auth \in Admins}

\* the number of records a list route matches
Matching(op) ==
    IF op = "get_suppliers" THEN Len(stored_suppliers(suppliers))
    ELSE IF op = "get_products_list" THEN Len(products)
    ELSE Len(orders)

\* the ids at the offsets (page-1)*limit .. min(page*limit, N)-1 of the matching records
PageIds(op, page, limit) ==
    LET all == IF op = "get_suppliers" THEN stored_suppliers(suppliers)
               ELSE [i \in 1..Matching(op) |-> i]
        lo == (page - 1) * limit
        hi == IF page * limit < Len(all) THEN page * limit ELSE Len(all)
    IN [k \in 1..(hi - lo) |-> all[lo + k]]

InRange(op, page, limit) == page \in 1..Ceil(Matching(op), limit)

\* a page in range is answered with the records at its offsets
C11_PageInRange ==
    \A page \in PageInputs, limit \in LimitInputs : \A a \in ListAnswers(page, limit) :
        InRange(a.op, page, limit) =>
            /\ a.status = 200
            /\ [k \in DOMAIN a.data.data |-> a.data.data[k].id] = PageIds(a.op, page, limit)

\* every list answer reports pages = ceil(N / L)
C11_PagesReported ==
    \A page \in 1..(MaxProducts + 1), limit \in LimitInputs : \A a \in ListAnswers(page, limit) :
        /\ a.status = 200
        /\ "pages" \in DOMAIN a.data
        /\ a.data.pages = Ceil(Matching(a.op), limit)

\* a page out of range is answered with an empty list, not with an error
C11_PageOutOfRange ==
    \A page \in PageInputs, limit \in LimitInputs : \A a \in ListAnswers(page, limit) :
        ~InRange(a.op, page, limit) => (a.status = 200 /\ a.data.data = <<>>)

\* C11: every paginated list route reports pages = ceil(N / L), answers page p
\* with the records at offsets (p-1)*L .. min(p*L, N)-1, and answers a page
\* outside 1..ceil(N / L) with an empty list.
C11_Pagination == C11_PagesReported /\ C11_PageInRange /\ C11_PageOutOfRange
\* ------------------------------------------------------------------ upload claims
AllowedExtensions == {"jpeg", "jpg", "png", "webp", "gif", "svg"}

\* an allowed file is written and its URL resolves to it
C12_AllowedAccepted ==
    \A auth \in Admins, file \in FileInputs :
        file.ext \in AllowedExtensions =>
            LET r == upload_file(uploads, auth, file) IN
            /\ r.resp.status = 200
            /\ file \in r.files
            /\ static_get(r.files, r.resp.data.imageUrl) = 200

\* C12: upload_file accepts a file if and only if its extension is in the
\* allow-list: any other file is answered 400 and nothing is written, an allowed
\* file is written and the URL returned resolves to it.
C12_UploadAllowList ==
    /\ C12_AllowedAccepted
    /\ \A auth \in Admins, file \in FileInputs :
          file.ext \notin AllowedExtensions =>
              LET r == upload_file(uploads, auth, file) IN
              r.resp.status = 400 /\ r.files = uploads

\* ------------------------------------------------------------------ login claims
UnknownEmail(l) == find_one_email(users, l.email) = 0

WrongPassword(l) ==
    /\ ~UnknownEmail(l)
    /\ users[find_one_email(users, l.email)].password # bcrypt_hashpw(l.password)

OrderStatuses == {"processing", "shipped", "completed", "cancelled"}

\* every order is stored by create_order with status processing
C14_CreatedProcessing ==
    \A auth \in Identities, items \in ItemLists :
        LET r == create_order(DB, auth, items) IN
        r.resp.status = 200 => r.db.orders[Len(r.db.orders)].status = "processing"

\* C14: the status of every stored order is one of processing, shipped,
\* completed, cancelled.
C14_OrderStatusValid == \A k \in DOMAIN orders : orders[k].status \in OrderStatuses

\* ------------------------------------------------------------------ oversell claims
\* every placement that was started has returned, and every persisted order
\* belongs to a placement that returned 200 (its activity record is its last write)
AllPlaced ==
    /\ \A p \in ProcIds : procs[p] = Idle
    /\ Len(activities) = Len(orders)

\* C15: two placements on one product that each pass the stock check both
\* decrement it: once the placements have returned 200, the stock of every product
\* is the catalog's minus everything ordered, also when that is below zero.
C15_BothDecrement ==
    AllPlaced =>
        \A p \in DOMAIN products :
            products[p].quantity = StepCatalog[p].quantity - OrderedBy(orders, p)

\* two placements of one line each on product p, each for no more than the stock
\* and together for more, have both returned 200 and the stock is below zero
C15_Witness ==
    /\ AllPlaced
    /\ Len(orders) = 2
    /\ resp.op = "create_order" /\ resp.status = 200
    /\ \E p \in DOMAIN products :
          /\ \A k \in DOMAIN orders :
                /\ Len(orders[k].items) = 1
                /\ orders[k].items[1].productId = p
                /\ orders[k].items[1].quantity <= StepCatalog[p].quantity
          /\ orders[1].items[1].quantity + orders[2].items[1].quantity > StepCatalog[p].quantity
          /\ products[p].quantity < 0

\* ------------------------------------------------------------------ report claims
\* the orders placed at or after the day `days` days before the current date
InWindow(days) ==
    SelectSeq([i \in 1..Len(orders) |-> i],
              LAMBDA i : toordinal(orders[i].orderDate) >= toordinal(utcnow) - days)

\* a report that is returned aggregates exactly the orders of the window
C16_WindowWhenReturned ==
    \A auth \in Admins, days \in DaysInputs :
        LET r == get_report(DB, auth, days).resp IN
        r.status = 200 => r.data.orders = InWindow(days)

\* C16: for every current date and every days >= 0, get_report returns the report
\* over exactly the orders of the trailing window of `days` days.
C16_ReportWindow ==
    \A auth \in Admins, days \in DaysInputs :
        LET r == get_report(DB, auth, days).resp IN
        r.status = 200 /\ r.data.orders = InWindow(days)
====
